---- MODULE Spec2Model ----
(***************************************************************************)
(* The Telegram reasoning bot of src/0-step.py, src/bot.py and src/ToTL.py *)
(* as one state machine.  The three files are variants of one program; the *)
(* variable `variant` is fixed by Init and selects the stage list, the     *)
(* history container (a Python list, or a langchain window memory) and the *)
(* text-generation client (guarded by try/except, or not).                 *)
(*                                                                         *)
(* Texts are sequences of tokens.  A marker ("Final Answer:", "Predicted   *)
(* Intent:") is one token: neither marker overlaps itself, so Python's     *)
(* substring search and split see it exactly as a token.                   *)
(*                                                                         *)
(* Handlers are asyncio coroutines on one event loop: `running` names the  *)
(* handler that holds the loop, and a handler gives it up only where it    *)
(* awaits real I/O (the Telegram calls in every variant, the generation    *)
(* call in ToTL.py only: in 0-step.py and bot.py get_openai_response calls *)
(* the synchronous client and never yields).                               *)
(***************************************************************************)
EXTENDS Integers, Sequences, FiniteSets, TLC

(* ------------------------------ bounds --------------------------------- *)
MaxTasks == 2
MaxTurns == 2
MaxSeed == 5
MaxFlips == 1
MaxFaults == 1
MaxRawLen == 3

(* ------------------------- program constants --------------------------- *)
HistoryLimit == 10
ContextWindow == 5
WindowK == 5

Users == {1, 2}
TaskIds == 1..MaxTasks
None == 0

Variants == {"0-step", "bot", "ToTL"}
ListVariants == {"0-step", "bot"}

(* ------------------------------- texts --------------------------------- *)
FinalMarker == "Final Answer:"
IntentMarker == "Predicted Intent:"
Space == " "
Sentinel == <<"Error processing request">>

EnableText == <<"Enable reasoning mode">>
DisableText == <<"Disable reasoning mode">>
StartText == <<"/", "start">>
HelpText == <<"/", "help">>
Queries == {<<"q1">>, <<"q2">>}
Texts == {EnableText, DisableText, StartText, HelpText} \cup Queries

equals(text, prefix) == text = <<prefix>>

startswith(text, prefix) == Len(text) >= 1 /\ text[1] = prefix

IsStartCommand(text) == Len(text) >= 2 /\ text[1] = "/" /\ text[2] = "start"

Contains(raw, marker) == \E i \in 1..Len(raw) : raw[i] = marker

RECURSIVE split(_, _)
split(raw, marker) ==
    IF ~Contains(raw, marker)
    THEN <<raw>>
    ELSE LET i == CHOOSE k \in 1..Len(raw) :
                      /\ raw[k] = marker
                      /\ \A j \in 1..(k - 1) : raw[j] # marker
         IN  <<SubSeq(raw, 1, i - 1)>> \o split(SubSeq(raw, i + 1, Len(raw)), marker)

RECURSIVE strip(_)
strip(s) ==
    IF s = <<>> THEN s
    ELSE IF Head(s) = Space THEN strip(Tail(s))
    ELSE IF s[Len(s)] = Space THEN strip(SubSeq(s, 1, Len(s) - 1))
    ELSE s

ExtractStripsFallback(raw, marker) ==
    IF Contains(raw, marker) THEN strip(split(raw, marker)[2]) ELSE strip(raw)

Extract(raw, marker) ==
    IF Contains(raw, marker) THEN strip(split(raw, marker)[2]) ELSE raw

LastN(s, n) == IF Len(s) <= n THEN s ELSE SubSeq(s, Len(s) - n + 1, Len(s))

(* ------------------------------ messages ------------------------------- *)
Msg(role, content) == [role |-> role, content |-> content]

(* ------------------------------- stages -------------------------------- *)
SimpleStages == <<"simple">>

ReasoningStages(v) ==
    IF v = "0-step" THEN <<"intent", "solve", "verify", "improve", "synthesize">>
    ELSE IF v = "bot" THEN <<"solve", "verify", "improve", "synthesize">>
    ELSE <<"tot", "consistency">>

StagesOf(v, strategy) ==
    IF strategy = "simple" THEN SimpleStages ELSE ReasoningStages(v)

(* Which part of the history a stage's prompt renders: history[-5:] in the  *)
(* list variants, memory.buffer_as_str (the last 2k messages) in ToTL.py;  *)
(* NoView where the prompt template has no history placeholder.            *)
NoView == <<Msg("none", <<>>)>>

HistoryView(v, stage, history) ==
    IF v = "0-step" THEN LastN(history, ContextWindow)
    ELSE IF v = "bot"
         THEN IF stage \in {"simple", "solve"}
              THEN LastN(history, ContextWindow) ELSE NoView
    ELSE IF stage \in {"simple", "tot"}
         THEN LastN(history, 2 * WindowK) ELSE NoView

(* What the text-generation service may answer when it answers.            *)
Outputs(stage, query) ==
    IF stage \in {"simple", "synthesize", "consistency"}
    THEN {query, <<Space, FinalMarker, Space>> \o query \o <<Space>>}
    ELSE IF stage = "intent" THEN {<<IntentMarker, Space, "intent">>}
    ELSE {<<stage>>}

NextStage(v, strategy, responses) == StagesOf(v, strategy)[Len(responses) + 1]

PipelineHaltsEarly(v, strategy, responses) == Len(responses) >= 1

PipelineDone(v, strategy, responses) ==
    Len(responses) = Len(StagesOf(v, strategy))

(* get_openai_response catches every exception and returns the sentinel;   *)
(* ToTL.py awaits chain.ainvoke with no handler around it.                 *)
OnFailureRaises(v) == "raise"

OnFailure(v) == IF v \in ListVariants THEN "sentinel" ELSE "raise"

(* ----------------------------- transcript ------------------------------ *)
Section(heading, body) == [heading |-> heading, body |-> body]

Returned(v, responses) ==
    IF v = "bot" THEN <<responses[1], responses[2], responses[4]>> ELSE responses

Headings(v) ==
    IF v = "0-step"
    THEN <<"Predicted Intent", "Solution", "Verification", "Improvement", "Final Answer">>
    ELSE IF v = "bot" THEN <<"Solution", "Verification", "Final Answer">>
    ELSE <<"Tree of Thoughts", "Final Evaluation">>

md_content(v, query, responses) ==
    [title |-> query,
     sections |-> [i \in 1..Len(Headings(v)) |->
                      Section(Headings(v)[i], Returned(v, responses)[i])]]

NoDoc == [title |-> <<>>, sections |-> <<>>]

FinalResponse(responses) == responses[Len(responses)]

(* Simple mode replies with the response as it came.                       *)
SimpleAnswerExtracted(response) == Extract(response, FinalMarker)

SimpleAnswer(response) == response

SharedPath(user_id) == 1

file_path(user_id) == user_id

(* ------------------------------ sessions ------------------------------- *)
NoSession == [history |-> None, reasoning_mode |-> FALSE, present |-> FALSE]

NewSessionShared(obj) == [history |-> 1, reasoning_mode |-> FALSE, present |-> TRUE]

NewSession(obj) == [history |-> obj, reasoning_mode |-> FALSE, present |-> TRUE]

SharedKey(user_id) == 1

Key(user_id) == user_id

SaveQuery(v, history, query) ==
    IF v \in ListVariants
    THEN Append(history, Msg("user", query))
    ELSE history \o <<Msg("user", query), Msg("assistant", <<>>)>>

SaveAnswer(v, history, query, answer) ==
    IF v \in ListVariants
    THEN Append(history, Msg("assistant", answer))
    ELSE history \o <<Msg("user", query), Msg("assistant", answer)>>

TruncatedToOdd(history) ==
    IF Len(history) > HistoryLimit THEN LastN(history, HistoryLimit - 1) ELSE history

TruncatedRebindsLocal(history) == history

Truncated(history) ==
    IF Len(history) > HistoryLimit THEN LastN(history, HistoryLimit) ELSE history

(* A history that MaxSeed earlier simple-mode turns leave behind.          *)
SeedQuery(j) == IF j % 2 = 1 THEN <<"q1">> ELSE <<"q2">>

RECURSIVE SeedHistory(_, _)
SeedHistory(v, k) ==
    IF k = 0 THEN <<>>
    ELSE LET before == SaveQuery(v, SeedHistory(v, k - 1), SeedQuery(k))
             after == SaveAnswer(v, before, SeedQuery(k), SeedQuery(k))
         IN  IF v \in ListVariants THEN Truncated(after) ELSE after

(* Every message those turns appended, the dropped ones included.          *)
RECURSIVE SeedAppended(_, _)
SeedAppended(v, k) ==
    IF k = 0 THEN <<>>
    ELSE SaveAnswer(v, SaveQuery(v, SeedAppended(v, k - 1), SeedQuery(k)),
                    SeedQuery(k), SeedQuery(k))

(* ------------------------------- state --------------------------------- *)
VARIABLES
    variant,     \* which of the three source files runs
    service,     \* the text-generation service: "up" or "down"
    flips,       \* how often the service changed state
    faults,      \* how many Telegram calls raised
    nturns,      \* how many messages were dispatched
    user_data,   \* user_data: Key(user id) -> session
    heap,        \* the history objects (lists / memories) ever created
    appended,    \* per history object: every message ever appended to it
    files,       \* reasoning_<user id>.md
    tasks,       \* the handler coroutines
    running,     \* the handler that holds the event loop, or None
    crashed,     \* users one of whose handlers ended with an exception
    alone,       \* per user: the session as that user's own steps alone make it
    ex           \* input and result of one extraction (ExtractSpec only)

vars == <<variant, service, flips, faults, nturns, user_data, heap, appended,
          files, tasks, running, crashed, alone, ex>>

IdleTask ==
    [pc |-> "idle", user |-> None, query |-> <<>>, history |-> None,
     strategy |-> "", snapshot |-> <<>>, responses |-> <<>>, calls |-> <<>>,
     md_content |-> NoDoc,
     final_answer |-> <<>>, out |-> <<>>, exc |-> ""]

NoEx == [raw |-> <<>>, marker |-> "", extracted |-> <<>>, applied |-> FALSE]

Seeds == {[present |-> FALSE, reasoning_mode |-> FALSE]} \cup
         {[present |-> TRUE, reasoning_mode |-> m] : m \in BOOLEAN}

Init ==
    /\ variant \in Variants
    /\ service = "up"
    /\ flips = 0
    /\ faults = 0
    /\ nturns = 0
    /\ \E seed \in [Users -> Seeds] :
         /\ user_data = [u \in Users |->
                IF seed[u].present
                THEN [NewSession(u) EXCEPT !.reasoning_mode = seed[u].reasoning_mode]
                ELSE NoSession]
         /\ heap = [u \in 1..Cardinality(Users) |->
                IF seed[u].present THEN SeedHistory(variant, MaxSeed) ELSE <<>>]
         /\ appended = [u \in 1..Cardinality(Users) |->
                IF seed[u].present THEN SeedAppended(variant, MaxSeed) ELSE <<>>]
    /\ files = [u \in Users |-> NoDoc]
    /\ tasks = [t \in TaskIds |-> IdleTask]
    /\ running = None
    /\ crashed = {}
    /\ alone = [u \in Users |->
           [history |-> IF user_data[u].present THEN heap[u] ELSE <<>>,
            reasoning_mode |-> user_data[u].reasoning_mode]]
    /\ ex = NoEx

(* A finished handler is dropped before the loop runs anything else.       *)
Settled == \A t \in TaskIds : tasks[t].pc \notin {"done", "raised"}

FreeSlot(t) ==
    /\ tasks[t].pc = "idle"
    /\ \A s \in TaskIds : s < t => tasks[s].pc # "idle"

(* ----------------------------- dispatcher ------------------------------ *)
(* @dp.message(Command("start")): the handler runs to its first await.     *)
send_welcome_in_place(t, u) ==
    /\ Settled
    /\ running = None
    /\ nturns < MaxTurns
    /\ FreeSlot(t)
    /\ IF user_data[Key(u)].present
       THEN /\ heap' = [heap EXCEPT ![user_data[Key(u)].history] = <<>>]
            /\ appended' = [appended EXCEPT ![user_data[Key(u)].history] = <<>>]
            /\ user_data' = [user_data EXCEPT ![Key(u)].reasoning_mode = FALSE]
       ELSE /\ heap' = Append(heap, <<>>)
            /\ appended' = Append(appended, <<>>)
            /\ user_data' = [user_data EXCEPT ![Key(u)] = NewSession(Len(heap) + 1)]
    /\ tasks' = [tasks EXCEPT ![t] =
                    [IdleTask EXCEPT !.pc = "welcome_reply", !.user = u,
                                     !.query = StartText]]
    /\ nturns' = nturns + 1
    /\ running' = None
    /\ alone' = [alone EXCEPT ![u] = [history |-> <<>>, reasoning_mode |-> FALSE]]
    /\ UNCHANGED <<variant, service, flips, faults, files, crashed, ex>>

send_welcome(t, u) ==
    /\ Settled
    /\ running = None
    /\ nturns < MaxTurns
    /\ FreeSlot(t)
    /\ heap' = Append(heap, <<>>)
    /\ appended' = Append(appended, <<>>)
    /\ user_data' = [user_data EXCEPT ![Key(u)] = NewSession(Len(heap) + 1)]
    /\ tasks' = [tasks EXCEPT ![t] =
                    [IdleTask EXCEPT !.pc = "welcome_reply", !.user = u,
                                     !.query = StartText]]
    /\ nturns' = nturns + 1
    /\ running' = None
    /\ alone' = [alone EXCEPT ![u] = [history |-> <<>>, reasoning_mode |-> FALSE]]
    /\ UNCHANGED <<variant, service, flips, faults, files, crashed, ex>>

(* @dp.message(): user_id, query, lazy session creation, history binding.  *)
handle_message(t, u, text) ==
    /\ Settled
    /\ running = None
    /\ nturns < MaxTurns
    /\ FreeSlot(t)
    /\ ~IsStartCommand(text)
    /\ IF user_data[Key(u)].present
       THEN UNCHANGED <<user_data, heap, appended>>
       ELSE /\ heap' = Append(heap, <<>>)
            /\ appended' = Append(appended, <<>>)
            /\ user_data' = [user_data EXCEPT ![Key(u)] = NewSession(Len(heap) + 1)]
    /\ tasks' = [tasks EXCEPT ![t] =
                    [IdleTask EXCEPT !.pc = "buttons", !.user = u, !.query = text,
                                     !.history = user_data'[Key(u)].history]]
    /\ nturns' = nturns + 1
    /\ running' = t
    /\ UNCHANGED <<variant, service, flips, faults, files, crashed, alone, ex>>

(* ------------------------------- buttons ------------------------------- *)
SetModeFallsThrough(t, text, mode) ==
    /\ Settled
    /\ running = t
    /\ tasks[t].pc = "buttons"
    /\ tasks[t].query = text
    /\ user_data' = [user_data EXCEPT ![Key(tasks[t].user)].reasoning_mode = mode]
    /\ heap' = [heap EXCEPT ![tasks[t].history] = SaveQuery(variant, @, text)]
    /\ appended' = [appended EXCEPT ![tasks[t].history] = SaveQuery(variant, @, text)]
    /\ tasks' = [tasks EXCEPT ![t].pc = "select"]
    /\ alone' = [alone EXCEPT ![tasks[t].user].reasoning_mode = mode]
    /\ UNCHANGED <<variant, service, flips, faults, nturns, files, running,
                   crashed, ex>>

SetMode(t, text, mode) ==
    /\ Settled
    /\ running = t
    /\ tasks[t].pc = "buttons"
    /\ tasks[t].query = text
    /\ user_data' = [user_data EXCEPT ![Key(tasks[t].user)].reasoning_mode = mode]
    /\ tasks' = [tasks EXCEPT ![t].pc = "toggle_reply"]
    /\ running' = None
    /\ alone' = [alone EXCEPT ![tasks[t].user].reasoning_mode = mode]
    /\ UNCHANGED <<variant, service, flips, faults, nturns, heap, appended, files,
                   crashed, ex>>

EnableReasoning(t) == SetMode(t, EnableText, TRUE)

DisableReasoning(t) == SetMode(t, DisableText, FALSE)

IgnoreCommand(t) ==
    /\ Settled
    /\ running = t
    /\ tasks[t].pc = "buttons"
    /\ tasks[t].query \notin {EnableText, DisableText}
    /\ startswith(tasks[t].query, "/")
    /\ tasks' = [tasks EXCEPT ![t].pc = "done"]
    /\ running' = None
    /\ UNCHANGED <<variant, service, flips, faults, nturns, user_data, heap,
                   appended, files,
                   crashed, alone, ex>>

AppendQuery(t) ==
    /\ Settled
    /\ running = t
    /\ tasks[t].pc = "buttons"
    /\ tasks[t].query \notin {EnableText, DisableText}
    /\ ~startswith(tasks[t].query, "/")
    /\ heap' = [heap EXCEPT ![tasks[t].history] =
                   SaveQuery(variant, @, tasks[t].query)]
    /\ appended' = [appended EXCEPT ![tasks[t].history] =
                       SaveQuery(variant, @, tasks[t].query)]
    /\ tasks' = [tasks EXCEPT ![t].pc = "select"]
    /\ alone' = [alone EXCEPT ![tasks[t].user].history =
                    SaveQuery(variant, @, tasks[t].query)]
    /\ UNCHANGED <<variant, service, flips, faults, nturns, user_data, files,
                   running, crashed, ex>>

SelectStrategy(t) ==
    /\ Settled
    /\ running = t
    /\ tasks[t].pc = "select"
    /\ tasks' = [tasks EXCEPT
                    ![t].pc = "call",
                    ![t].snapshot = heap[tasks[t].history],
                    ![t].strategy =
                        IF user_data[Key(tasks[t].user)].reasoning_mode
                        THEN "reasoning" ELSE "simple"]
    /\ UNCHANGED <<variant, service, flips, faults, nturns, user_data, heap,
                   appended, files,
                   running, crashed, alone, ex>>

(* --------------------------- generation calls -------------------------- *)
Call(stage, query, view) ==
    [stage |-> stage, query |-> query, history |-> view,
     done |-> FALSE, failed |-> FALSE]

(* Who may take the step that ends a generation call: the caller itself    *)
(* where the call is synchronous, whoever the loop picks where it awaits.  *)
CallAlwaysYields(v) == TRUE

CallYields(v) == v \notin ListVariants

Resumes(t) == IF CallYields(variant) THEN running = None ELSE running = t

CallIssue(t) ==
    /\ Settled
    /\ running = t
    /\ tasks[t].pc = "call"
    /\ LET stage == NextStage(variant, tasks[t].strategy, tasks[t].responses)
           view == HistoryView(variant, stage, heap[tasks[t].history])
       IN  tasks' = [tasks EXCEPT
                        ![t].pc = "generate",
                        ![t].calls = Append(@, Call(stage, tasks[t].query, view))]
    /\ running' = IF CallYields(variant) THEN None ELSE t
    /\ UNCHANGED <<variant, service, flips, faults, nturns, user_data, heap, appended,
                   files, crashed, alone, ex>>

Returns(t, text, failed) ==
    LET n == Len(tasks[t].calls)
        responses == Append(tasks[t].responses, text)
    IN  /\ tasks' = [tasks EXCEPT
                        ![t].calls[n].done = TRUE,
                        ![t].calls[n].failed = failed,
                        ![t].responses = responses,
                        ![t].pc = IF PipelineDone(variant, tasks[t].strategy, responses)
                                  THEN "respond" ELSE "call"]
        /\ running' = t
        /\ UNCHANGED crashed

CallReturn(t) ==
    /\ Settled
    /\ Resumes(t)
    /\ tasks[t].pc = "generate"
    /\ service = "up"
    /\ \E text \in Outputs(tasks[t].calls[Len(tasks[t].calls)].stage, tasks[t].query) :
           Returns(t, text, FALSE)
    /\ UNCHANGED <<variant, service, flips, faults, nturns, user_data, heap,
                   appended, files, alone, ex>>

CallFails(t) ==
    /\ Settled
    /\ Resumes(t)
    /\ tasks[t].pc = "generate"
    /\ service = "down"
    /\ IF OnFailure(variant) = "sentinel"
       THEN Returns(t, Sentinel, TRUE)
       ELSE /\ tasks' = [tasks EXCEPT ![t].pc = "raised", ![t].exc = "generation",
                                      ![t].calls[Len(tasks[t].calls)].failed = TRUE]
            /\ crashed' = crashed \cup {tasks[t].user}
            /\ running' = None
    /\ UNCHANGED <<variant, service, flips, faults, nturns, user_data, heap,
                   appended, files, alone, ex>>

(* ------------------------------ responding ----------------------------- *)
SimpleReply(t) ==
    /\ Settled
    /\ running = t
    /\ tasks[t].pc = "respond"
    /\ tasks[t].strategy = "simple"
    /\ tasks' = [tasks EXCEPT ![t].pc = "reply",
                              ![t].final_answer = SimpleAnswer(tasks[t].responses[1])]
    /\ running' = None
    /\ UNCHANGED <<variant, service, flips, faults, nturns, user_data, heap,
                   appended, files,
                   crashed, alone, ex>>

WriteTranscript(t) ==
    /\ Settled
    /\ running = t
    /\ tasks[t].pc = "respond"
    /\ tasks[t].strategy = "reasoning"
    /\ LET doc == md_content(variant, tasks[t].query, tasks[t].responses)
       IN  /\ tasks' = [tasks EXCEPT ![t].pc = "document", ![t].md_content = doc]
           /\ files' = [files EXCEPT ![file_path(tasks[t].user)] = doc]
    /\ running' = None
    /\ UNCHANGED <<variant, service, flips, faults, nturns, user_data, heap, appended,
                   crashed, alone, ex>>

Delivery(kind, content) == [kind |-> kind, content |-> content]

(* reply_document reads the file while the call is awaited, then the       *)
(* handler extracts the final answer and awaits the reply.                 *)
DocumentDelivered(t) ==
    /\ Settled
    /\ running = None
    /\ tasks[t].pc = "document"
    /\ tasks' = [tasks EXCEPT
                    ![t].pc = "reply",
                    ![t].out = Append(@, Delivery("document",
                                                  files[file_path(tasks[t].user)])),
                    ![t].final_answer =
                        Extract(FinalResponse(tasks[t].responses), FinalMarker)]
    /\ UNCHANGED <<variant, service, flips, faults, nturns, user_data, heap,
                   appended, files,
                   running, crashed, alone, ex>>

ReplyDelivered(t) ==
    /\ Settled
    /\ running = None
    /\ tasks[t].pc = "reply"
    /\ tasks' = [tasks EXCEPT
                    ![t].pc = "append",
                    ![t].out = Append(@, Delivery("reply", tasks[t].final_answer))]
    /\ running' = t
    /\ UNCHANGED <<variant, service, flips, faults, nturns, user_data, heap,
                   appended, files,
                   crashed, alone, ex>>

AppendAnswerReturns(t) ==
    /\ Settled
    /\ running = t
    /\ tasks[t].pc = "append"
    /\ heap' = [heap EXCEPT ![tasks[t].history] =
                   SaveAnswer(variant, @, tasks[t].query, tasks[t].final_answer)]
    /\ appended' = [appended EXCEPT ![tasks[t].history] =
                       SaveAnswer(variant, @, tasks[t].query, tasks[t].final_answer)]
    /\ tasks' = [tasks EXCEPT ![t].pc = "done"]
    /\ running' = None
    /\ alone' = [alone EXCEPT ![tasks[t].user].history =
                    SaveAnswer(variant, @, tasks[t].query, tasks[t].final_answer)]
    /\ UNCHANGED <<variant, service, flips, faults, nturns, user_data, files,
                   crashed, ex>>

AppendAnswer(t) ==
    /\ Settled
    /\ running = t
    /\ tasks[t].pc = "append"
    /\ heap' = [heap EXCEPT ![tasks[t].history] =
                   SaveAnswer(variant, @, tasks[t].query, tasks[t].final_answer)]
    /\ appended' = [appended EXCEPT ![tasks[t].history] =
                       SaveAnswer(variant, @, tasks[t].query, tasks[t].final_answer)]
    /\ tasks' = [tasks EXCEPT ![t].pc =
                    IF variant \in ListVariants THEN "truncate" ELSE "done"]
    /\ running' = IF variant \in ListVariants THEN t ELSE None
    /\ alone' = [alone EXCEPT ![tasks[t].user].history =
                    SaveAnswer(variant, @, tasks[t].query, tasks[t].final_answer)]
    /\ UNCHANGED <<variant, service, flips, faults, nturns, user_data, files,
                   crashed, ex>>

Truncate(t) ==
    /\ Settled
    /\ running = t
    /\ tasks[t].pc = "truncate"
    /\ heap' = [heap EXCEPT ![tasks[t].history] = Truncated(@)]
    /\ UNCHANGED appended
    /\ tasks' = [tasks EXCEPT ![t].pc = "done"]
    /\ running' = None
    /\ alone' = [alone EXCEPT ![tasks[t].user].history = Truncated(@)]
    /\ UNCHANGED <<variant, service, flips, faults, nturns, user_data, files,
                   crashed, ex>>

(* The reply that ends a toggle or /start handler.                         *)
NoticeDelivered(t) ==
    /\ Settled
    /\ running = None
    /\ tasks[t].pc \in {"toggle_reply", "welcome_reply"}
    /\ tasks' = [tasks EXCEPT ![t].pc = "done",
                              ![t].out = Append(@, Delivery("notice", <<>>))]
    /\ UNCHANGED <<variant, service, flips, faults, nturns, user_data, heap,
                   appended, files,
                   running, crashed, alone, ex>>

(* A Telegram call raises (message too long, network, flood control):      *)
(* nothing in the handlers catches it.                                     *)
TransportFails(t) ==
    /\ Settled
    /\ running = None
    /\ tasks[t].pc \in {"toggle_reply", "welcome_reply", "document", "reply"}
    /\ faults < MaxFaults
    /\ faults' = faults + 1
    /\ tasks' = [tasks EXCEPT ![t].pc = "raised", ![t].exc = "transport"]
    /\ crashed' = crashed \cup {tasks[t].user}
    /\ running' = None
    /\ UNCHANGED <<variant, service, flips, nturns, user_data, heap, appended,
                   files, alone, ex>>

(* The coroutine object of a finished handler is dropped.                  *)
Return(t) ==
    /\ tasks[t].pc \in {"done", "raised"}
    /\ tasks' = [tasks EXCEPT ![t] = IdleTask]
    /\ UNCHANGED <<variant, service, flips, faults, nturns, user_data, heap,
                   appended, files,
                   running, crashed, alone, ex>>

(* ----------------------------- environment ----------------------------- *)
ServiceFlip ==
    /\ Settled
    /\ flips < MaxFlips
    /\ flips' = flips + 1
    /\ service' = IF service = "up" THEN "down" ELSE "up"
    /\ UNCHANGED <<variant, faults, nturns, user_data, heap, appended, files,
                   tasks, running,
                   crashed, alone, ex>>

Next ==
    \/ \E t \in TaskIds, u \in Users : send_welcome(t, u)
    \/ \E t \in TaskIds, u \in Users, text \in Texts : handle_message(t, u, text)
    \/ \E t \in TaskIds : EnableReasoning(t)
    \/ \E t \in TaskIds : DisableReasoning(t)
    \/ \E t \in TaskIds : IgnoreCommand(t)
    \/ \E t \in TaskIds : AppendQuery(t)
    \/ \E t \in TaskIds : SelectStrategy(t)
    \/ \E t \in TaskIds : CallIssue(t)
    \/ \E t \in TaskIds : CallReturn(t)
    \/ \E t \in TaskIds : CallFails(t)
    \/ \E t \in TaskIds : SimpleReply(t)
    \/ \E t \in TaskIds : WriteTranscript(t)
    \/ \E t \in TaskIds : DocumentDelivered(t)
    \/ \E t \in TaskIds : ReplyDelivered(t)
    \/ \E t \in TaskIds : AppendAnswer(t)
    \/ \E t \in TaskIds : Truncate(t)
    \/ \E t \in TaskIds : NoticeDelivered(t)
    \/ \E t \in TaskIds : TransportFails(t)
    \/ \E t \in TaskIds : Return(t)
    \/ ServiceFlip

Spec == Init /\ [][Next]_vars

(* The same program when every user waits for the end of a turn before     *)
(* sending the next message: turns of different users still interleave.    *)
NoTurnOf(u) == \A t \in TaskIds : tasks[t].pc = "idle" \/ tasks[t].user # u

NextSerial ==
    \/ \E t \in TaskIds, u \in Users : NoTurnOf(u) /\ send_welcome(t, u)
    \/ \E t \in TaskIds, u \in Users, text \in Texts :
           NoTurnOf(u) /\ handle_message(t, u, text)
    \/ \E t \in TaskIds : EnableReasoning(t)
    \/ \E t \in TaskIds : DisableReasoning(t)
    \/ \E t \in TaskIds : IgnoreCommand(t)
    \/ \E t \in TaskIds : AppendQuery(t)
    \/ \E t \in TaskIds : SelectStrategy(t)
    \/ \E t \in TaskIds : CallIssue(t)
    \/ \E t \in TaskIds : CallReturn(t)
    \/ \E t \in TaskIds : CallFails(t)
    \/ \E t \in TaskIds : SimpleReply(t)
    \/ \E t \in TaskIds : WriteTranscript(t)
    \/ \E t \in TaskIds : DocumentDelivered(t)
    \/ \E t \in TaskIds : ReplyDelivered(t)
    \/ \E t \in TaskIds : AppendAnswer(t)
    \/ \E t \in TaskIds : Truncate(t)
    \/ \E t \in TaskIds : NoticeDelivered(t)
    \/ \E t \in TaskIds : TransportFails(t)
    \/ \E t \in TaskIds : Return(t)
    \/ ServiceFlip

SpecSerial == Init /\ [][NextSerial]_vars

(* The event loop runs every ready coroutine, and every awaited call that  *)
(* does not raise returns: each handler's next step is eventually taken.   *)
(* Arrivals, service changes and Telegram failures are under no such       *)
(* obligation.                                                             *)
Continue(t) ==
    \/ EnableReasoning(t)
    \/ DisableReasoning(t)
    \/ IgnoreCommand(t)
    \/ AppendQuery(t)
    \/ SelectStrategy(t)
    \/ CallIssue(t)
    \/ CallReturn(t)
    \/ CallFails(t)
    \/ SimpleReply(t)
    \/ WriteTranscript(t)
    \/ DocumentDelivered(t)
    \/ ReplyDelivered(t)
    \/ AppendAnswer(t)
    \/ Truncate(t)
    \/ NoticeDelivered(t)
    \/ Return(t)

(* Started with both users known, user 1 in Simple and user 2 in Reasoning *)
(* mode.                                                                   *)
InitFair ==
    /\ Init
    /\ \A u \in Users :
           /\ user_data[Key(u)].present
           /\ user_data[Key(u)].reasoning_mode = (u # 1)

SpecFair ==
    InitFair /\ [][Next]_vars /\ \A t \in TaskIds : WF_vars(Continue(t))

(* ------------------- the extraction rule on its own -------------------- *)
Alphabet == {FinalMarker, IntentMarker, Space, "a"}

Raws == UNION {[1..n -> Alphabet] : n \in 0..MaxRawLen}

InitExtract ==
    /\ variant = "0-step"
    /\ service = "up"
    /\ flips = 0
    /\ faults = 0
    /\ nturns = 0
    /\ user_data = [u \in Users |-> NoSession]
    /\ heap = <<>>
    /\ appended = <<>>
    /\ files = [u \in Users |-> NoDoc]
    /\ tasks = [t \in TaskIds |-> IdleTask]
    /\ running = None
    /\ crashed = {}
    /\ alone = [u \in Users |-> [history |-> <<>>, reasoning_mode |-> FALSE]]
    /\ \E raw \in Raws, marker \in {FinalMarker, IntentMarker} :
           ex = [NoEx EXCEPT !.raw = raw, !.marker = marker]

ApplyExtract ==
    /\ ~ex.applied
    /\ ex' = [ex EXCEPT !.extracted = Extract(ex.raw, ex.marker), !.applied = TRUE]
    /\ UNCHANGED <<variant, service, flips, faults, nturns, user_data, heap,
                   appended, files,
                   tasks, running, crashed, alone>>

ExtractSpec == InitExtract /\ [][ApplyExtract]_vars

(* ------------------------------ observers ------------------------------ *)
HistOf(u) ==
    IF user_data[Key(u)].present THEN heap[user_data[Key(u)].history] ELSE <<>>

ModeOf(u) == user_data[Key(u)].reasoning_mode

InFlight(t) == tasks[t].pc \notin {"idle", "done", "raised"}

Idle(u) == \A t \in TaskIds : InFlight(t) => tasks[t].user # u

AfterPipeline == {"respond", "document", "reply", "append", "truncate", "done"}

Last(s) == s[Len(s)]

Finished(t) == tasks[t].pc = "done"

ReasoningRun(t) == tasks[t].strategy = "reasoning"

(* ------------------------------- claims -------------------------------- *)

(* C1: in the list variants, a user none of whose turns is in flight and   *)
(* none of whose turns was cut short by an exception has at most 10        *)
(* history entries.                                                        *)
HistoryBounded ==
    \A u \in Users :
        (variant \in ListVariants /\ Idle(u) /\ u \notin crashed)
            => Len(HistOf(u)) <= HistoryLimit

(* C1 witness: a reasoning-mode turn on a full history has ended and the   *)
(* truncation dropped the two oldest entries.                              *)
HistoryBoundedWitness ==
    \E t \in TaskIds :
        /\ variant = "0-step"
        /\ Finished(t)
        /\ ReasoningRun(t)
        /\ Idle(tasks[t].user)
        /\ Len(HistOf(tasks[t].user)) = HistoryLimit
        /\ Last(HistOf(tasks[t].user)) = Msg("assistant", tasks[t].final_answer)
        /\ HistOf(tasks[t].user)[1] = SeedHistory(variant, MaxSeed)[3]

(* C2: the calls of a reasoning-mode run are the declared stages in order, *)
(* a call is issued only after the one before it returned, and a run that  *)
(* left the pipeline made exactly one call per stage; in the list variants *)
(* no run ends before that.                                                *)
StagesInOrder ==
    \A t \in TaskIds :
        ReasoningRun(t) =>
            LET calls == tasks[t].calls
                stages == ReasoningStages(variant)
            IN  /\ Len(calls) <= Len(stages)
                /\ \A i \in 1..Len(calls) : calls[i].stage = stages[i]
                /\ \A i \in 1..(Len(calls) - 1) : calls[i].done
                /\ Len(tasks[t].responses) =
                       Cardinality({i \in 1..Len(calls) : calls[i].done})
                /\ tasks[t].pc \in AfterPipeline =>
                       /\ Len(calls) = Len(stages)
                       /\ \A i \in 1..Len(calls) : calls[i].done
                /\ (variant \in ListVariants /\ tasks[t].pc = "raised") =>
                       Len(calls) = Len(stages)

(* C2 witness: a five-stage run has ended, one of its calls having failed. *)
StagesInOrderWitness ==
    \E t \in TaskIds :
        /\ variant = "0-step"
        /\ Finished(t)
        /\ ReasoningRun(t)
        /\ Len(tasks[t].calls) = 5
        /\ tasks[t].calls[2].failed
        /\ ~tasks[t].calls[1].failed

(* C3: in the variants that call get_openai_response, a reasoning-mode run *)
(* all of whose calls failed is not halted, holds the sentinel as every    *)
(* stage result, writes a transcript with the sentinel in every section,   *)
(* and sends and stores the sentinel as the final answer.                  *)
AllFailed(t) ==
    /\ tasks[t].calls # <<>>
    /\ \A i \in 1..Len(tasks[t].calls) : tasks[t].calls[i].failed

SentinelPropagates ==
    \A t \in TaskIds :
        (variant \in ListVariants /\ ReasoningRun(t) /\ AllFailed(t)) =>
            /\ tasks[t].exc # "generation"
            /\ \A i \in 1..Len(tasks[t].responses) : tasks[t].responses[i] = Sentinel
            /\ tasks[t].pc \in (AfterPipeline \ {"respond"}) =>
                   /\ Len(tasks[t].calls) = Len(ReasoningStages(variant))
                   /\ Len(tasks[t].md_content.sections) = Len(Headings(variant))
                   /\ \A i \in 1..Len(tasks[t].md_content.sections) :
                          tasks[t].md_content.sections[i].body = Sentinel
            /\ tasks[t].pc \in {"append", "truncate", "done"} =>
                   Last(tasks[t].out) = Delivery("reply", Sentinel)
            /\ tasks[t].pc \in {"truncate", "done"} =>
                   Last(heap[tasks[t].history]) = Msg("assistant", Sentinel)

(* C3 witness: such a run has ended in 0-step.py, document and reply sent. *)
SentinelPropagatesWitness ==
    \E t \in TaskIds :
        /\ variant = "0-step"
        /\ Finished(t)
        /\ ReasoningRun(t)
        /\ AllFailed(t)
        /\ Len(tasks[t].calls) = 5
        /\ Len(tasks[t].out) = 2
        /\ tasks[t].out[1].kind = "document"
        /\ tasks[t].out[1].content.sections[5].body = Sentinel

(* C4: a failure of the text-generation service is never raised out of     *)
(* handle_message, and a turn one of whose calls failed ends with a reply  *)
(* sent and an Assistant message appended.                                 *)
GenerationFailureNeverRaised ==
    \A t \in TaskIds :
        /\ tasks[t].exc # "generation"
        /\ (Finished(t) /\ \E i \in 1..Len(tasks[t].calls) : tasks[t].calls[i].failed) =>
               /\ Last(tasks[t].out).kind = "reply"
               /\ Last(heap[tasks[t].history]).role = "assistant"

(* C5: a raw output without the marker is extracted as itself.             *)
ExtractionFallback ==
    (ex.applied /\ ~Contains(ex.raw, ex.marker)) => ex.extracted = ex.raw

(* C5 witness: a raw output without the marker, whitespace at both ends,   *)
(* has been extracted.                                                     *)
ExtractionFallbackWitness ==
    /\ ex.applied
    /\ ~Contains(ex.raw, ex.marker)
    /\ Len(ex.raw) = MaxRawLen
    /\ ex.raw[1] = Space
    /\ Last(ex.raw) = Space
    /\ ex.extracted = ex.raw

(* C6: a raw output with the marker is extracted as everything that        *)
(* follows the first marker, trimmed.                                      *)
Remainder(raw, marker) ==
    LET i == CHOOSE k \in 1..Len(raw) :
                 /\ raw[k] = marker
                 /\ \A j \in 1..(k - 1) : raw[j] # marker
    IN  SubSeq(raw, i + 1, Len(raw))

ExtractionTakesRemainder ==
    (ex.applied /\ Contains(ex.raw, ex.marker)) =>
        ex.extracted = strip(Remainder(ex.raw, ex.marker))

(* C7: every step of a handler whose text is a mode toggle leaves every    *)
(* history as it is and issues no generation call; the step that sets the  *)
(* mode leaves it Reasoning for "Enable reasoning mode" and Simple for     *)
(* "Disable reasoning mode" whatever it was before, every other step       *)
(* leaves every mode as it is.                                             *)
Toggles == {EnableText, DisableText}

Stepped(t, texts) ==
    /\ tasks'[t] # tasks[t]
    /\ (tasks[t].query \in texts \/ tasks'[t].query \in texts)

ToggleIdempotent ==
    [][\A t \in TaskIds :
          Stepped(t, Toggles) =>
              /\ \A u \in Users : HistOf(u)' = HistOf(u)
              /\ tasks'[t].calls = <<>>
              /\ tasks'[t].responses = <<>>
              /\ \A u \in Users :
                     ModeOf(u)' =
                         IF tasks[t].pc = "buttons" /\ u = tasks[t].user
                         THEN (tasks[t].query = EnableText)
                         ELSE ModeOf(u)]_vars

(* C7 witness: two "Enable reasoning mode" messages of one user have both  *)
(* set the mode; it is Reasoning and the history is the one from before.   *)
ToggleIdempotentWitness ==
    \E t1, t2 \in TaskIds :
        /\ t1 # t2
        /\ tasks[t1].user = tasks[t2].user
        /\ tasks[t1].query = EnableText
        /\ tasks[t2].query = EnableText
        /\ tasks[t1].pc = "done"
        /\ tasks[t2].pc = "toggle_reply"
        /\ ModeOf(tasks[t1].user)
        /\ HistOf(tasks[t1].user) = SeedHistory(variant, MaxSeed)
        /\ HistOf(tasks[t1].user) # <<>>

(* C8: every step of a handler whose text is "/help" leaves every history, *)
(* every mode and every transcript file as they are, issues no generation  *)
(* call and sends nothing; the handler returns from the prefix test.       *)
CommandBypassesPipeline ==
    [][\A t \in TaskIds :
          Stepped(t, {HelpText}) =>
              /\ \A u \in Users : HistOf(u)' = HistOf(u)
              /\ \A u \in Users : ModeOf(u)' = ModeOf(u)
              /\ files' = files
              /\ tasks'[t].calls = <<>>
              /\ tasks'[t].out = <<>>
              /\ tasks'[t].pc \in {"buttons", "done", "idle"}]_vars

(* C8 witness: a "/help" handler has returned for a user in Reasoning mode *)
(* with a full history.                                                    *)
CommandBypassesPipelineWitness ==
    \E t \in TaskIds :
        /\ Finished(t)
        /\ tasks[t].query = HelpText
        /\ tasks[t].out = <<>>
        /\ ModeOf(tasks[t].user)
        /\ Len(HistOf(tasks[t].user)) = HistoryLimit

(* C9: when each user's own turns run one after the other, each user's     *)
(* history and mode are at every moment what that user's own steps alone   *)
(* produce, however the turns of the other user interleave, and no handler *)
(* is bound to the history of another user's session.                      *)
SessionsIsolated ==
    \A u \in Users :
        /\ HistOf(u) = alone[u].history
        /\ ModeOf(u) = alone[u].reasoning_mode
        /\ \A t \in TaskIds :
               (InFlight(t) /\ tasks[t].user # u /\ user_data[Key(u)].present) =>
                   tasks[t].history # user_data[Key(u)].history

(* C9 witness: turns of both users are suspended at the same time, one     *)
(* waiting for its document and one for its reply, both queries appended.  *)
SessionsIsolatedWitness ==
    \E t1, t2 \in TaskIds :
        /\ tasks[t1].user = 1
        /\ tasks[t2].user = 2
        /\ tasks[t1].pc = "document"
        /\ tasks[t2].pc = "reply"
        /\ Last(HistOf(1)) = Msg("user", tasks[t1].query)
        /\ Last(HistOf(2)) = Msg("user", tasks[t2].query)
        /\ tasks[t1].query # tasks[t2].query

(* C10: no two turns of one user are in flight at the same time, and the   *)
(* history of a user none of whose turns is in flight keeps each query     *)
(* immediately followed by its own answer.                                 *)
Answers(query, answer) == answer = Sentinel \/ Contains(answer, query[1])

InOrder(v, h) ==
    IF v \in ListVariants
    THEN /\ Len(h) % 2 = 0
         /\ \A i \in 1..Len(h) :
                i % 2 = 1 =>
                    /\ h[i].role = "user"
                    /\ h[i + 1].role = "assistant"
                    /\ Answers(h[i].content, h[i + 1].content)
    ELSE /\ Len(h) % 4 = 0
         /\ \A i \in 1..Len(h) :
                i % 4 = 1 =>
                    /\ h[i].role = "user"
                    /\ h[i + 1] = Msg("assistant", <<>>)
                    /\ h[i + 2] = h[i]
                    /\ h[i + 3].role = "assistant"
                    /\ Answers(h[i].content, h[i + 3].content)

PerUserSerialized ==
    /\ \A t1, t2 \in TaskIds :
           (t1 # t2 /\ InFlight(t1) /\ InFlight(t2)) => tasks[t1].user # tasks[t2].user
    /\ \A u \in Users : (Idle(u) /\ u \notin crashed) => InOrder(variant, HistOf(u))

(* C11: every generation call of a run renders the history as it was when  *)
(* the run started (right after the query was appended), whatever was      *)
(* appended to the list since; in 0-step.py every stage renders the last 5 *)
(* entries of it, in bot.py and ToTL.py the stages that render history at  *)
(* all render that same content.                                           *)
SnapshotIsolation ==
    \A t \in TaskIds :
        tasks[t].strategy # "" =>
            \A i \in 1..Len(tasks[t].calls) :
                /\ tasks[t].calls[i].history =
                       HistoryView(variant, tasks[t].calls[i].stage, tasks[t].snapshot)
                /\ variant = "0-step" =>
                       tasks[t].calls[i].history =
                           LastN(tasks[t].snapshot, ContextWindow)

(* C11 witness: a five-stage run is waiting for its document while another *)
(* message of the same user has been appended to the list the run reads.   *)
SnapshotIsolationWitness ==
    \E t \in TaskIds :
        /\ variant = "0-step"
        /\ ReasoningRun(t)
        /\ tasks[t].pc = "document"
        /\ Len(tasks[t].calls) = 5
        /\ Len(heap[tasks[t].history]) = Len(tasks[t].snapshot) + 1
        /\ Last(heap[tasks[t].history]).role = "user"
        /\ tasks[t].calls[5].history = LastN(tasks[t].snapshot, ContextWindow)
        /\ tasks[t].calls[5].history # LastN(heap[tasks[t].history], ContextWindow)

(* C12: a simple-mode turn that started on an empty history issues one     *)
(* generation call, for the stage "simple", whose prompt holds the query   *)
(* and the history that holds just that query; once the call returned, the *)
(* final answer, the reply and nothing else sent is that call's output as  *)
(* it came (so it holds the query when the service answered), and no       *)
(* transcript is built or sent.                                            *)
FirstTurn(t) ==
    /\ tasks[t].strategy = "simple"
    /\ tasks[t].snapshot = SaveQuery(variant, <<>>, tasks[t].query)

SimpleRoundTrip ==
    \A t \in TaskIds :
        FirstTurn(t) =>
            /\ Len(tasks[t].calls) <= 1
            /\ \A i \in 1..Len(tasks[t].calls) :
                   /\ tasks[t].calls[i].stage = "simple"
                   /\ tasks[t].calls[i].query = tasks[t].query
                   /\ tasks[t].calls[i].history = tasks[t].snapshot
            /\ tasks[t].md_content = NoDoc
            /\ \A i \in 1..Len(tasks[t].out) : tasks[t].out[i].kind = "reply"
            /\ tasks[t].pc \in AfterPipeline =>
                   /\ Len(tasks[t].calls) = 1
                   /\ Len(tasks[t].responses) = 1
                   /\ ~tasks[t].calls[1].failed =>
                          Contains(tasks[t].responses[1], tasks[t].query[1])
            /\ tasks[t].pc \in {"reply", "append", "truncate", "done"} =>
                   tasks[t].final_answer = tasks[t].responses[1]
            /\ tasks[t].pc \in {"append", "truncate", "done"} =>
                   tasks[t].out = <<Delivery("reply", tasks[t].responses[1])>>

(* C12 witness: such a turn has ended; the output held a "Final Answer:"   *)
(* marker and surrounding blanks, and was sent and stored with them.       *)
SimpleRoundTripWitness ==
    \E t \in TaskIds :
        /\ FirstTurn(t)
        /\ Finished(t)
        /\ tasks[t].query = <<"q1">>
        /\ tasks[t].responses = <<<<Space, FinalMarker, Space, "q1", Space>>>>
        /\ tasks[t].out = <<Delivery("reply", tasks[t].responses[1])>>
        /\ Last(heap[tasks[t].history]) = Msg("assistant", tasks[t].responses[1])

(* C13: the transcript of a reasoning-mode run that reached the write has  *)
(* the query as its title and one section per executed stage, in execution *)
(* order, each holding that stage's raw output.                            *)
Written(t) ==
    /\ ReasoningRun(t)
    /\ tasks[t].pc \in {"document", "reply", "append", "truncate", "done"}

TranscriptComplete ==
    \A t \in TaskIds :
        Written(t) =>
            /\ tasks[t].md_content.title = tasks[t].query
            /\ Len(tasks[t].md_content.sections) = Len(tasks[t].calls)
            /\ \A i \in 1..Len(tasks[t].md_content.sections) :
                   tasks[t].md_content.sections[i].body = tasks[t].responses[i]

(* C14: a turn whose text is a query never ends without its final-answer   *)
(* reply unless a Telegram call raised; a turn that ended has sent the     *)
(* reply alone when it selected the simple strategy, and the document      *)
(* followed by the reply when it selected the reasoning strategy; at no    *)
(* moment has a reply been sent before the document of the same turn.      *)
Kinds(out) == [i \in 1..Len(out) |-> out[i].kind]

Expected(strategy) ==
    IF strategy = "reasoning" THEN <<"document", "reply">> ELSE <<"reply">>

ReplyAlwaysProduced ==
    \A t \in TaskIds :
        tasks[t].query \in Queries =>
            /\ tasks[t].pc = "raised" => tasks[t].exc = "transport"
            /\ Finished(t) => Kinds(tasks[t].out) = Expected(tasks[t].strategy)
            /\ Len(tasks[t].out) <= Len(Expected(tasks[t].strategy))
            /\ \A i \in 1..Len(tasks[t].out) :
                   tasks[t].out[i].kind = Expected(tasks[t].strategy)[i]
            /\ tasks[t].md_content # NoDoc => ReasoningRun(t)
            /\ Written(t) => tasks[t].md_content # NoDoc

(* C15: the step of a turn that saves the query appends exactly one        *)
(* message, User with the query; the step that saves the answer appends    *)
(* exactly one message, Assistant with the final answer, and is taken only *)
(* after the last generation call returned; no other step appends to any   *)
(* history.                                                                *)
SavesQuery(t) == tasks[t].pc = "buttons" /\ tasks'[t].pc = "select"

SavesAnswer(t) == tasks[t].pc = "append" /\ tasks'[t].pc # "append"

AppendsOnce ==
    /\ \A t \in TaskIds :
           /\ SavesQuery(t) =>
                  /\ tasks[t].calls = <<>>
                  /\ appended'[tasks[t].history] =
                         Append(appended[tasks[t].history],
                                Msg("user", tasks[t].query))
           /\ SavesAnswer(t) =>
                  /\ PipelineDone(variant, tasks[t].strategy, tasks[t].responses)
                  /\ appended'[tasks[t].history] =
                         Append(appended[tasks[t].history],
                                Msg("assistant", tasks[t].final_answer))
    /\ \A h \in 1..Len(appended) :
           appended'[h] # appended[h] =>
               \E t \in TaskIds :
                   tasks[t].history = h /\ (SavesQuery(t) \/ SavesAnswer(t))

OneAppendEach == [][AppendsOnce]_vars

(* C16: when a turn that answered a query has ended, simple or reasoning   *)
(* mode, the history it was bound to is the last min(10, n) of the n       *)
(* messages ever appended to it, in their order.                           *)
SlidingWindow ==
    \A t \in TaskIds :
        (Finished(t) /\ tasks[t].query \in Queries) =>
            heap[tasks[t].history] =
                LastN(appended[tasks[t].history], HistoryLimit)

(* C17: a turn that answers a query is, in this order, Idle,               *)
(* HistoryAppended, StrategySelected, SimpleRun or ReasoningRun,           *)
(* HistoryUpdated and Idle again, every step keeping the state or moving   *)
(* to the next one; it leaves that path only when a call raised instead of *)
(* returning.  No generation call is issued before the query was appended, *)
(* the answer is appended only when every stage has returned, in the list  *)
(* variants the truncation is the step right after that append, and a turn *)
(* that has appended its query eventually ends.                            *)
TurnState(task) ==
    IF task.pc \in {"idle", "buttons"} THEN "Idle"
    ELSE IF task.pc = "select" THEN "HistoryAppended"
    ELSE IF task.pc = "call" /\ task.calls = <<>> THEN "StrategySelected"
    ELSE IF task.pc \in {"call", "generate", "respond", "document", "reply", "append"}
         THEN IF task.strategy = "simple" THEN "SimpleRun" ELSE "ReasoningRun"
    ELSE IF task.pc \in {"truncate", "done"} THEN "HistoryUpdated"
    ELSE "Raised"

Follows(a, b) ==
    \/ a = b
    \/ a = "Idle" /\ b = "HistoryAppended"
    \/ a = "HistoryAppended" /\ b = "StrategySelected"
    \/ a = "StrategySelected" /\ b \in {"SimpleRun", "ReasoningRun"}
    \/ a \in {"SimpleRun", "ReasoningRun"} /\ b = "HistoryUpdated"
    \/ a = "HistoryUpdated" /\ b = "Idle"

AllReturned(task) ==
    /\ Len(task.calls) = Len(StagesOf(variant, task.strategy))
    /\ \A i \in 1..Len(task.calls) : task.calls[i].done

TurnStep(t) ==
    /\ \/ Follows(TurnState(tasks[t]), TurnState(tasks'[t]))
       \/ /\ TurnState(tasks'[t]) = "Raised"
          /\ tasks[t].pc \in {"generate", "document", "reply"}
          /\ tasks'[t].exc \in {"generation", "transport"}
       \/ TurnState(tasks[t]) = "Raised" /\ TurnState(tasks'[t]) = "Idle"
    /\ TurnState(tasks[t]) \in {"Idle", "HistoryAppended"} => tasks[t].calls = <<>>
    /\ SavesQuery(t) =>
           \E i \in (Len(appended[tasks[t].history]) + 1)
                        ..Len(appended'[tasks[t].history]) :
               appended'[tasks[t].history][i] = Msg("user", tasks[t].query)
    /\ SavesAnswer(t) =>
           /\ AllReturned(tasks[t])
           /\ variant \in ListVariants => tasks'[t].pc = "truncate"
    /\ tasks[t].pc = "truncate" => tasks'[t].pc \in {"truncate", "done"}
    /\ (tasks[t].pc = "truncate" /\ tasks'[t].pc = "done") =>
           /\ Last(appended[tasks[t].history]) =
                  Msg("assistant", tasks[t].final_answer)
           /\ Len(heap'[tasks[t].history]) <= HistoryLimit

TurnStateOrder ==
    /\ [][\A t \in TaskIds :
             (tasks[t].query \in Queries \/ tasks'[t].query \in Queries)
                 => TurnStep(t)]_vars
    /\ \A t \in TaskIds :
           (TurnState(tasks[t]) = "HistoryAppended") ~>
               (TurnState(tasks[t]) \in {"Idle", "Raised"})

(* C17 witness: a reasoning-mode turn has reached HistoryUpdated through   *)
(* all five stages, one of them answered by the sentinel.                  *)
TurnStateOrderWitness ==
    \E t \in TaskIds :
        /\ variant = "0-step"
        /\ TurnState(tasks[t]) = "HistoryUpdated"
        /\ tasks[t].pc = "done"
        /\ ReasoningRun(t)
        /\ AllReturned(tasks[t])
        /\ \E i \in 1..Len(tasks[t].calls) : tasks[t].calls[i].failed
        /\ Kinds(tasks[t].out) = <<"document", "reply">>
        /\ Len(heap[tasks[t].history]) = HistoryLimit

(* C18: the step that starts a handler for a user without a session does   *)
(* not raise: it first creates the session, with an empty history of its   *)
(* own and mode Simple, and binds the handler to it, whatever the text; a  *)
(* session that exists is left as it is; the step that starts the /start   *)
(* handler leaves the user with an empty history and mode Simple whatever  *)
(* the session was.                                                        *)
Arrives(t, u) ==
    /\ tasks[t].pc = "idle"
    /\ tasks'[t].pc # "idle"
    /\ tasks'[t].user = u

Fresh(u) ==
    /\ user_data'[Key(u)].present
    /\ user_data'[Key(u)].history > Len(heap)
    /\ HistOf(u)' = <<>>
    /\ ~ModeOf(u)'

UnknownUserHandled ==
    [][\A t \in TaskIds, u \in Users :
          Arrives(t, u) =>
              /\ tasks'[t].pc \in {"buttons", "welcome_reply"}
              /\ tasks'[t].exc = ""
              /\ IF tasks'[t].pc = "welcome_reply"
                 THEN Fresh(u)
                 ELSE /\ tasks'[t].history = user_data'[Key(u)].history
                      /\ IF user_data[Key(u)].present
                         THEN user_data'[Key(u)] = user_data[Key(u)] /\ heap' = heap
                         ELSE Fresh(u)]_vars

(* C18 witness: the first message of all, "Enable reasoning mode" from a   *)
(* user without a session, has been handled: the session exists, its       *)
(* history is empty and its mode is the one the toggle set, next to        *)
(* another user's full history.                                            *)
UnknownUserHandledWitness ==
    \E t \in TaskIds :
        /\ nturns = 1
        /\ tasks[t].pc = "toggle_reply"
        /\ tasks[t].query = EnableText
        /\ tasks[t].user = 2
        /\ user_data[Key(2)].present
        /\ user_data[Key(2)].history = Len(heap)
        /\ HistOf(2) = <<>>
        /\ ModeOf(2)
        /\ Len(HistOf(1)) = HistoryLimit

(* C19: the step of a reasoning-mode turn that writes the transcript       *)
(* leaves the user's file holding exactly the document built from that     *)
(* turn's query and stage outputs, whatever the file held before, and      *)
(* leaves every other user's file as it was; no other step of any handler  *)
(* changes any file.                                                       *)
Writes(t) == tasks[t].pc = "respond" /\ tasks'[t].pc = "document"

ArtifactReplaced ==
    [][(\A t \in TaskIds :
           Writes(t) =>
               /\ files'[tasks[t].user] = tasks'[t].md_content
               /\ files'[tasks[t].user].title = tasks[t].query
               /\ Len(files'[tasks[t].user].sections) = Len(Headings(variant))
               /\ \A u \in Users \ {tasks[t].user} : files'[u] = files[u])
       /\ (files' # files => \E t \in TaskIds : Writes(t))]_vars

(* C19 witness: two reasoning-mode turns of user 1 have written in turn;   *)
(* the file holds the second document and nothing of the first, and user   *)
(* 2 still has no file.                                                    *)
ArtifactReplacedWitness ==
    \E t1, t2 \in TaskIds :
        /\ tasks[t1].user = 1
        /\ tasks[t2].user = 1
        /\ tasks[t1].pc = "document"
        /\ tasks[t2].pc = "document"
        /\ tasks[t1].query = <<"q1">>
        /\ tasks[t2].query = <<"q2">>
        /\ files[1] = tasks[t2].md_content
        /\ files[1].title = <<"q2">>
        /\ files[2] = NoDoc

(* C20: in the list variants, when each user's turns run one at a time,    *)
(* the history of a user with no turn in flight and no turn ended by an    *)
(* exception has even length and reads User, Assistant, User, Assistant,   *)
(* ... from its first entry on, each Assistant entry answering the User    *)
(* entry right before it, also after the truncation dropped entries.       *)
Alternates(h) ==
    /\ Len(h) % 2 = 0
    /\ \A i \in 1..Len(h) :
           h[i].role = IF i % 2 = 1 THEN "user" ELSE "assistant"
    /\ \A i \in 1..Len(h) :
           i % 2 = 0 => Answers(h[i - 1].content, h[i].content)

HistoryAlternates ==
    \A u \in Users :
        (variant \in ListVariants /\ Idle(u) /\ u \notin crashed) =>
            Alternates(HistOf(u))

(* C20 witness: a turn on a full history has ended and the truncation      *)
(* dropped the oldest query together with its answer.                      *)
HistoryAlternatesWitness ==
    \E t \in TaskIds :
        /\ variant = "bot"
        /\ Finished(t)
        /\ tasks[t].query = <<"q2">>
        /\ Idle(tasks[t].user)
        /\ tasks[t].user \notin crashed
        /\ Len(appended[tasks[t].history]) = HistoryLimit + 2
        /\ Len(HistOf(tasks[t].user)) = HistoryLimit
        /\ HistOf(tasks[t].user)[1] = appended[tasks[t].history][3]
        /\ HistOf(tasks[t].user)[HistoryLimit - 1] = Msg("user", <<"q2">>)
        /\ Last(HistOf(tasks[t].user)).role = "assistant"

(* C21: in the list variants, when each user's turns run one at a time, a  *)
(* history never holds more than 12 entries: at most 11 from the append of *)
(* the query to the append of the answer, at most 12 from there to the     *)
(* truncation.                                                             *)
InPipeline == {"select", "call", "generate", "respond", "document", "reply", "append"}

HistoryBoundedMidTurn ==
    variant \in ListVariants =>
        /\ \A u \in Users : Len(HistOf(u)) <= HistoryLimit + 2
        /\ \A t \in TaskIds :
               /\ tasks[t].pc \in InPipeline =>
                      Len(heap[tasks[t].history]) <= HistoryLimit + 1
               /\ tasks[t].pc = "truncate" =>
                      Len(heap[tasks[t].history]) <= HistoryLimit + 2

(* C22: the document a reasoning-mode turn has sent is the one that turn   *)
(* built from its own query and stage outputs.                             *)
OwnTranscriptDelivered ==
    \A t \in TaskIds :
        \A i \in 1..Len(tasks[t].out) :
            tasks[t].out[i].kind = "document" =>
                /\ tasks[t].out[i].content = tasks[t].md_content
                /\ tasks[t].out[i].content =
                       md_content(variant, tasks[t].query, tasks[t].responses)

(* C23: the step that starts the /start handler binds the user to a        *)
(* history object that no turn in flight holds; from then on every step of *)
(* a turn that still holds the replaced object (its answer append, its     *)
(* truncation, its return) leaves the user's session, history and mode, as *)
(* it is.                                                                  *)
Stale(t) ==
    /\ InFlight(t)
    /\ tasks[t].history # None
    /\ user_data[Key(tasks[t].user)].present
    /\ tasks[t].history # user_data[Key(tasks[t].user)].history

ResetSurvivesTurn ==
    [][(\A t0 \in TaskIds, u \in Users :
           (Arrives(t0, u) /\ tasks'[t0].pc = "welcome_reply") =>
               \A t \in TaskIds :
                   (InFlight(t) /\ tasks[t].user = u /\ tasks[t].history # None) =>
                       /\ tasks'[t].history # user_data'[Key(u)].history
                       /\ heap'[tasks[t].history] = heap[tasks[t].history])
       /\ (\A t \in TaskIds :
              (Stale(t) /\ tasks'[t] # tasks[t]) =>
                  /\ user_data'[Key(tasks[t].user)] = user_data[Key(tasks[t].user)]
                  /\ HistOf(tasks[t].user)' = HistOf(tasks[t].user)
                  /\ ModeOf(tasks[t].user)' = ModeOf(tasks[t].user))]_vars

(* C23 witness: a reasoning-mode turn that was waiting for its document    *)
(* when /start was handled has ended; its answer is the last entry of the  *)
(* replaced list, and the user's session is empty and Simple.              *)
ResetSurvivesTurnWitness ==
    \E t \in TaskIds :
        /\ variant = "0-step"
        /\ Finished(t)
        /\ ReasoningRun(t)
        /\ user_data[Key(tasks[t].user)].present
        /\ tasks[t].history # user_data[Key(tasks[t].user)].history
        /\ Last(heap[tasks[t].history]) = Msg("assistant", tasks[t].final_answer)
        /\ Len(heap[tasks[t].history]) = HistoryLimit
        /\ HistOf(tasks[t].user) = <<>>
        /\ ~ModeOf(tasks[t].user)

====
